---- MODULE Spec2Model ----
(***************************************************************************)
(* Model of src/lora_VAEw2w.py: LoRAVAEModule (one adapter per backbone    *)
(* submodule) and LoRAw2wVAE (the manager that resolves the declared       *)
(* weight layout into index ranges, installs the adapters and toggles them *)
(* through __enter__/__exit__).                                            *)
(*                                                                         *)
(* Tensors are sequences of integers, arithmetic on them is exact, and a   *)
(* fraction <<n, d>> stands for the Python float n/d.  The output of an    *)
(* original forward is left uninterpreted: a result names the module and   *)
(* the input it was computed from, and lists the updates added to it.      *)
(***************************************************************************)
EXTENDS Integers, Sequences, FiniteSets, TLC

(* ------------------------------ bounds --------------------------------- *)
\* longest declared layout (number of keys of weight_dimensions)
MaxKeys == 4
\* largest value of the latent z
MaxZ == 1
\* most decodes (scope entries) in one behaviour
MaxEnters == 2

\* backbone module paths the layout can name
Paths == {"attn1.to_q", "attn2.to_k", "attn2.to_out"}
\* first dimension of a declared factor shape
Sizes == {1, 2}
\* the two factor-role suffixes of a decoder-side key
RoleTokens == {"lora_A", "lora_B"}
\* output widths a decoder can declare
DecWidths == {3, 6}
\* element values of an input vector x
XVals == {0, 1}
\* an unset alpha argument (Python None)
AlphaNone == 0 - 1
Ranks == {2, 4}
Alphas == {AlphaNone, 0, 1}
Multipliers == {0, 2}

(* --------------------------- training methods -------------------------- *)
TRAINING_METHODS ==
    {"noxattn", "innoxattn", "selfattn", "xattn", "full", "xattn-strict",
     "noxattn-hspace", "noxattn-hspace-last"}

\* method names a caller can pass: the supported ones and an unknown one
MethodNames == TRAINING_METHODS \cup {"bogus"}

\* `sub in name` for the substrings _should_skip_module probes
Contains(name, sub) ==
    sub \in (CASE name = "attn1.to_q"   -> {"attn1"}
               [] name = "attn2.to_k"   -> {"attn2", "to_k"}
               [] name = "attn2.to_out" -> {"attn2", "out"}
               [] OTHER                 -> {})

\* _should_skip_module: "skip" (True), "keep" (False) or "raise"
should_skip_module(name, method) ==
    IF method \in {"noxattn", "noxattn-hspace", "noxattn-hspace-last"}
    THEN IF Contains(name, "attn2") \/ Contains(name, "time_embed")
         THEN "skip" ELSE "keep"
    ELSE IF method = "innoxattn"
    THEN IF Contains(name, "attn2") THEN "skip" ELSE "keep"
    ELSE IF method = "selfattn"
    THEN IF ~Contains(name, "attn1") THEN "skip" ELSE "keep"
    ELSE IF method \in {"xattn", "xattn-strict"}
    THEN IF Contains(name, "to_k") THEN "skip"
         ELSE IF method = "xattn-strict"
                 /\ (Contains(name, "out") \/ Contains(name, "to_k"))
         THEN "skip" ELSE "keep"
    ELSE IF method = "full" THEN "keep"
    ELSE "raise"

(* ------------------------------ the layout ----------------------------- *)
\* one entry of weight_dimensions: the key "<path>.<role>.weight" and the
\* first dimension of its shape
Keys == [path : Paths, role : RoleTokens, size : Sizes]

\* a dict: key strings are unique, iteration is insertion order
IsDict(s) ==
    \A i, j \in 1..Len(s) :
        (s[i].path = s[j].path /\ s[i].role = s[j].role) => i = j

Layouts == {s \in UNION {[1..n -> Keys] : n \in 0..MaxKeys} : IsDict(s)}

\* the chain of str.replace calls, on the role token of a key
ReplaceAB(tok) ==
    CASE tok = "lora_A" -> "lora_down"
      [] tok = "lora_B" -> "lora_up"
      [] OTHER          -> tok

ReplaceDownUp(tok) ==
    CASE tok = "lora_down" -> "lora_A"
      [] tok = "lora_up"   -> "lora_B"
      [] OTHER             -> tok

\* diffusers_key of a key: prefix, module path and rewritten role token
DiffusersKey(key) ==
    [prefix |-> "base_model.model.", path |-> key.path,
     role |-> ReplaceDownUp(ReplaceAB(key.role))]

\* base_key = diffusers_key.rsplit('.lora_', 1)[0]
BaseKey(dkey) == [prefix |-> dkey.prefix, path |-> dkey.path]

\* faulty variant: the test picks out the up factor
HasLoraAInverted(dkey) == dkey.role = "lora_B"

\* "lora_A" in diffusers_key
HasLoraA(dkey) == dkey.role = "lora_A"

\* module_pairs: the entries in first-insertion order, each holding the
\* index of its A key and of its B key in the layout (0 is None)
NoneKey == 0

FindBase(pairs, base) ==
    IF \E i \in 1..Len(pairs) : pairs[i].base = base
    THEN CHOOSE i \in 1..Len(pairs) : pairs[i].base = base
    ELSE 0

RECURSIVE GroupKeys(_, _, _)
GroupKeys(layout, k, pairs) ==
    IF k > Len(layout) THEN pairs
    ELSE LET dkey  == DiffusersKey(layout[k])
             base  == BaseKey(dkey)
             added == IF FindBase(pairs, base) = 0
                      THEN Append(pairs, [base |-> base, A |-> NoneKey, B |-> NoneKey])
                      ELSE pairs
             i     == FindBase(added, base)
             set   == IF HasLoraA(dkey)
                      THEN [added EXCEPT ![i].A = k]
                      ELSE [added EXCEPT ![i].B = k]
         IN  GroupKeys(layout, k + 1, set)

ModulePairs(layout) == GroupKeys(layout, 1, <<>>)

(* --------------------------- LoRAVAEModule ----------------------------- *)
\* params = None
NoneParams == [id |-> 0, data |-> <<>>]
\* a forward callable: the original of a backbone module, an adapter's
\* bound forward, or None
OrigForward(path) == <<"orig", path>>
LoraForward(name) == <<"lora", name>>
NoneForward == <<"none", "">>

RECURSIVE Gcd(_, _)
Gcd(a, b) == IF b = 0 THEN a ELSE Gcd(b, a % b)

\* the float n/d (d > 0), as a fraction in lowest terms
Frac(n, d) ==
    LET a == IF n < 0 THEN 0 - n ELSE n
        g == Gcd(a, d)
    IN  IF g = 0 THEN <<0, 1>> ELSE <<n \div g, d \div g>>

\* faulty variant: an alpha of 0 is used as it is
ScaleKeepsZeroAlpha(alpha_, rank_) ==
    Frac(IF alpha_ = AlphaNone THEN rank_ ELSE alpha_, rank_)

\* alpha = rank if alpha is None or alpha == 0 else alpha; scale = alpha / rank
Scale(alpha_, rank_) ==
    LET a == IF alpha_ = AlphaNone \/ alpha_ = 0 THEN rank_ ELSE alpha_
    IN  Frac(a, rank_)

\* LoRAVAEModule.__init__
NewLora(lora_name, slice_A, slice_B, org_module, multiplier_, rank_, alpha_) ==
    [lora_name   |-> lora_name,
     multiplier  |-> multiplier_,
     org_module  |-> org_module,
     slice_A     |-> slice_A,
     slice_B     |-> slice_B,
     rank        |-> rank_,
     scale       |-> Scale(alpha_, rank_),
     org_forward |-> NoneForward,
     params      |-> NoneParams]

(* ------------------------------- state --------------------------------- *)
VARIABLES
    weight_dimensions,  \* the declared layout loaded by torch.load
    train_method,       \* constructor argument
    unet,               \* the module paths the backbone has
    decWidth,           \* width of the buffer vae.decode returns
    rank,               \* constructor argument (self.lora_dim)
    alpha,              \* constructor argument
    multiplier,         \* constructor argument (self.multiplier)
    phase,              \* "new", "ready" (constructed) or "failed"
    raised,             \* the exception the last operation raised, or ""
    counter,            \* "total params counted" by create_modules
    unet_loras,         \* the adapters, in creation order
    forward,            \* the forward callable of every backbone module
    z,                  \* the latent
    nbuf,               \* buffers decoded so far (identity of the newest)
    inScope,            \* a scope was entered and not yet exited
    pending,            \* the scope body raised and the error is in flight
    excArg,             \* exc_type handed to the last __exit__
    op,                 \* the operation that ran last
    ret                 \* what it returned

inputs == <<weight_dimensions, train_method, unet, decWidth, rank, alpha, multiplier>>
vars == <<weight_dimensions, train_method, unet, decWidth, rank, alpha, multiplier,
          phase, raised, counter, unet_loras, forward, z, nbuf, inScope, pending,
          excArg, op, ret>>

(* ---------------------------- create_modules --------------------------- *)
\* faulty variant: slice_B starts where slice_A starts
AssignSlicesOverlap(counter_, size_A, size_B) ==
    [A |-> <<counter_, counter_ + size_A>>,
     B |-> <<counter_, counter_ + size_B>>,
     counter |-> counter_ + size_A + size_B]

\* slice_A, slice_B and the advanced counter, from the running counter
AssignSlices(counter_, size_A, size_B) ==
    [A |-> <<counter_, counter_ + size_A>>,
     B |-> <<counter_ + size_A, counter_ + size_A + size_B>>,
     counter |-> counter_ + size_A + size_B]

\* the loop over module_pairs.items(), from entry i on
RECURSIVE CreateLoop(_, _, _, _, _, _)
CreateLoop(pairs, i, counter_, loras, unet_, train_method_) ==
    IF i > Len(pairs) THEN [raised |-> "", loras |-> loras, counter |-> counter_]
    ELSE LET pair == pairs[i]
             fail(e) == [raised |-> e, loras |-> loras, counter |-> counter_]
         IN
         \* orig_key_A, diffusers_key_A = pair["A"]: unpacking None raises
         IF pair.A = NoneKey \/ pair.B = NoneKey THEN fail("TypeError")
         ELSE LET module_path == pair.base.path
                  skip == should_skip_module(module_path, train_method_)
              IN
              IF skip = "raise" THEN fail("NotImplementedError")
              ELSE IF skip = "skip"
              THEN CreateLoop(pairs, i + 1, counter_, loras, unet_, train_method_)
              ELSE LET size_A == weight_dimensions[pair.A].size
                       size_B == weight_dimensions[pair.B].size
                       sl     == AssignSlices(counter_, size_A, size_B)
                   IN
                   \* getattr walk from the backbone root
                   IF module_path \notin unet_
                   THEN [raised |-> "AttributeError", loras |-> loras,
                         counter |-> sl.counter]
                   ELSE CreateLoop(pairs, i + 1, sl.counter,
                            Append(loras, NewLora(pair.base, sl.A, sl.B, module_path,
                                                  multiplier, rank, alpha)),
                            unet_, train_method_)

\* the pairs with both factors present
RECURSIVE CompletePairs(_)
CompletePairs(pairs) ==
    IF pairs = <<>> THEN <<>>
    ELSE (IF Head(pairs).A # NoneKey /\ Head(pairs).B # NoneKey
          THEN <<Head(pairs)>> ELSE <<>>) \o CompletePairs(Tail(pairs))

\* variant that drops the entries lacking a factor instead of unpacking them
create_modules_skipping_malformed(unet_, train_method_) ==
    CreateLoop(CompletePairs(ModulePairs(weight_dimensions)), 1, 0, <<>>,
               unet_, train_method_)

create_modules(unet_, train_method_) ==
    CreateLoop(ModulePairs(weight_dimensions), 1, 0, <<>>, unet_, train_method_)

(* ------------------------------ apply_to ------------------------------- *)
\* faulty variant: the module's forward is not captured
ApplyToNoCapture(lora, fwd) == [lora EXCEPT !.org_module = "deleted"]

\* apply_to of one adapter: capture the module's forward, drop the module
ApplyTo(lora, fwd) ==
    [lora EXCEPT !.org_forward = fwd[lora.org_module], !.org_module = "deleted"]

\* for lora in self.unet_loras: lora.apply_to()
RECURSIVE ApplyAll(_, _, _)
ApplyAll(loras, i, fwd) ==
    IF i > Len(loras) THEN [loras |-> loras, forward |-> fwd]
    ELSE ApplyAll([loras EXCEPT ![i] = ApplyTo(loras[i], fwd)], i + 1,
                  [fwd EXCEPT ![loras[i].org_module] = LoraForward(loras[i].lora_name.path)])

(* ------------------------------ results -------------------------------- *)
\* the value a call returned: the original forward's output for (path, x)
\* plus the low-rank updates added to it; None; or a raised error
OrgResult(path, x) == [kind |-> "value", path |-> path, x |-> x, added |-> <<>>]
NoneResult == [kind |-> "None", path |-> "", x |-> <<>>, added |-> <<>>]
ErrorResult(e) == [kind |-> e, path |-> "", x |-> <<>>, added |-> <<>>]

(* --------------------------- LoRAw2wVAE.__init__ ----------------------- *)
InitInputs(layouts, methods, unets, widths, ranks, alphas, multipliers) ==
    /\ weight_dimensions \in layouts
    /\ train_method \in methods
    /\ unet \in unets
    /\ decWidth \in widths
    /\ rank \in ranks
    /\ alpha \in alphas
    /\ multiplier \in multipliers
    /\ phase = "new"
    /\ raised = ""
    /\ counter = 0
    /\ unet_loras = <<>>
    /\ forward = [p \in unet |-> OrigForward(p)]
    /\ z = 0
    /\ nbuf = 0
    /\ inScope = FALSE
    /\ pending = FALSE
    /\ excArg = "None"
    /\ op = "none"
    /\ ret = NoneResult

Construct ==
    /\ phase = "new"
    /\ LET r == create_modules(unet, train_method)
           a == ApplyAll(r.loras, 1, forward)
       IN  IF r.raised # ""
           THEN /\ phase' = "failed"
                /\ raised' = r.raised
                /\ UNCHANGED <<counter, unet_loras, forward>>
           ELSE /\ phase' = "ready"
                /\ raised' = ""
                /\ counter' = r.counter
                /\ unet_loras' = a.loras
                /\ forward' = a.forward
    /\ op' = "init"
    /\ ret' = NoneResult
    /\ UNCHANGED <<inputs, z, nbuf, inScope, pending, excArg>>

\* layout resolution alone: every layout, method and backbone, default knobs
InitCreate ==
    InitInputs(Layouts, MethodNames, {Paths, Paths \ {"attn2.to_out"}}, {4},
               {4}, {1}, {1})

NextCreate == Construct

SpecCreate == InitCreate /\ [][NextCreate]_vars

(* ------------------------------ decoding ------------------------------- *)
\* spacing of bfloat16 values around n >= 0 (8 significant bits)
RECURSIVE Ulp(_)
Ulp(n) == IF n < 256 THEN 1 ELSE 2 * Ulp(n \div 2)

\* Tensor.bfloat16() on one element: round to nearest, ties to even
BFloat16(n) ==
    LET s == Ulp(n)
        q == n \div s
        r == n % s
    IN  IF 2 * r < s THEN q * s
        ELSE IF 2 * r > s THEN (q + 1) * s
        ELSE IF q % 2 = 0 THEN q * s ELSE (q + 1) * s

\* vae.decode: a fixed function of the latent, decWidth values wide
Decode(z_) == [i \in 1..decWidth |-> 257 * z_ + i]

\* vae.decode(self.z).bfloat16(), the i-th buffer decoded
Decoded(z_, i) ==
    [id |-> i, data |-> [k \in 1..decWidth |-> BFloat16(Decode(z_)[k])]]

(* ------------------------- LoRAVAEModule.forward ----------------------- *)
\* t[lo:hi] for a 1-D tensor: Python clamps the range to the tensor
Slice(t, sl) ==
    LET lo == IF sl[1] > Len(t) THEN Len(t) ELSE sl[1]
        hi == IF sl[2] > Len(t) THEN Len(t) ELSE sl[2]
    IN  [k \in 1..(IF hi > lo THEN hi - lo ELSE 0) |-> t[lo + k]]

RECURSIVE Dot(_, _)
Dot(x, a) == IF x = <<>> THEN 0 ELSE Head(x) * Head(a) + Dot(Tail(x), Tail(a))

\* (x @ lora_A.T @ lora_B.T) * multiplier * scale for a 1-D x; not ok (a
\* RuntimeError) when a reshape of an empty slice or the matrix product
\* rejects the shapes
LowRankUpdate(x, params_A, params_B, multiplier_, scale) ==
    IF params_A = <<>> \/ params_B = <<>> \/ Len(x) # Len(params_A)
    THEN [ok |-> FALSE, val |-> <<>>]
    ELSE [ok |-> TRUE,
          val |-> [j \in 1..Len(params_B) |->
                     Frac(Dot(x, params_A) * params_B[j] * multiplier_ * scale[1],
                          scale[2])]]

LookupLora(loras, name) == CHOOSE i \in 1..Len(loras) : loras[i].lora_name.path = name

RECURSIVE Invoke(_, _, _)
\* faulty variant: the multiplier and params are not tested
ForwardAlwaysActive(lora, x, loras) ==
    LET org == Invoke(lora.org_forward, x, loras)
        upd == LowRankUpdate(x, Slice(lora.params.data, lora.slice_A),
                             Slice(lora.params.data, lora.slice_B),
                             lora.multiplier, lora.scale)
    IN  IF org.kind # "value" THEN org
        ELSE IF ~upd.ok THEN ErrorResult("RuntimeError")
        ELSE [org EXCEPT !.added = Append(@, upd.val)]

\* forward(x) of an adapter
Forward(lora, x, loras) ==
    IF lora.multiplier = 0 \/ lora.params = NoneParams
    THEN Invoke(lora.org_forward, x, loras)
    ELSE LET org == Invoke(lora.org_forward, x, loras)
             upd == LowRankUpdate(x, Slice(lora.params.data, lora.slice_A),
                                  Slice(lora.params.data, lora.slice_B),
                                  lora.multiplier, lora.scale)
         IN  IF org.kind # "value" THEN org
             ELSE IF ~upd.ok THEN ErrorResult("RuntimeError")
             ELSE [org EXCEPT !.added = Append(@, upd.val)]

\* calling a forward callable
Invoke(callable, x, loras) ==
    IF callable[1] = "orig" THEN OrgResult(callable[2], x)
    ELSE IF callable[1] = "lora"
    THEN Forward(loras[LookupLora(loras, callable[2])], x, loras)
    ELSE ErrorResult("TypeError")

\* the input vectors a caller passes
Inputs == UNION {[1..n -> XVals] : n \in Sizes}

(* ------------------------- the scope protocol -------------------------- *)
\* faulty variant: only the first adapter is refreshed
ActivateFirstOnly(loras, params, multiplier_) ==
    [i \in 1..Len(loras) |->
        IF i = 1 THEN [loras[i] EXCEPT !.params = params, !.multiplier = multiplier_]
        ELSE loras[i]]

\* the loop of __enter__
Activate(loras, params, multiplier_) ==
    [i \in 1..Len(loras) |->
        [loras[i] EXCEPT !.params = params, !.multiplier = multiplier_]]

\* faulty variant: the buffer is kept
DeactivateKeepsParams(loras) ==
    [i \in 1..Len(loras) |-> [loras[i] EXCEPT !.multiplier = 0]]

\* the loop of __exit__
Deactivate(loras) ==
    [i \in 1..Len(loras) |->
        [loras[i] EXCEPT !.multiplier = 0, !.params = NoneParams]]

\* what __exit__ returns: it has no return statement
ExitReturn == NoneResult

\* the with statement swallows the error when __exit__ returns a true value
Truthy(result) == result.kind = "True"

Usable == phase = "ready" /\ ~pending

Enter ==
    /\ Usable
    /\ nbuf < MaxEnters
    /\ nbuf' = nbuf + 1
    /\ unet_loras' = Activate(unet_loras, Decoded(z, nbuf + 1), multiplier)
    /\ inScope' = TRUE
    /\ raised' = ""
    /\ op' = "enter"
    /\ ret' = NoneResult
    /\ UNCHANGED <<inputs, phase, counter, forward, z, pending, excArg>>

\* __exit__, called by the with statement (with the body's error, if any) or
\* directly
Exit ==
    /\ phase = "ready"
    /\ excArg' = IF pending THEN "BodyError" ELSE "None"
    /\ unet_loras' = Deactivate(unet_loras)
    /\ ret' = ExitReturn
    /\ raised' = IF excArg' # "None" /\ ~Truthy(ret') THEN excArg' ELSE ""
    /\ pending' = FALSE
    /\ inScope' = FALSE
    /\ op' = "exit"
    /\ UNCHANGED <<inputs, phase, counter, forward, z, nbuf>>

\* the body of a scope raises
BodyRaise ==
    /\ Usable
    /\ inScope
    /\ pending' = TRUE
    /\ raised' = "BodyError"
    /\ op' = "body"
    /\ ret' = NoneResult
    /\ UNCHANGED <<inputs, phase, counter, unet_loras, forward, z, nbuf, inScope, excArg>>

\* the backbone calls the forward of one of its modules
CallForward ==
    /\ Usable
    /\ \E path \in unet, x \in Inputs :
          ret' = Invoke(forward[path], x, unet_loras)
    /\ raised' = IF ret'.kind = "value" THEN "" ELSE ret'.kind
    /\ pending' = (inScope /\ ret'.kind # "value")
    /\ op' = "forward"
    /\ UNCHANGED <<inputs, phase, counter, unet_loras, forward, z, nbuf, inScope, excArg>>

\* an optimizer step on the one tensor parameters() yields
Step ==
    /\ Usable
    /\ \E v \in 0..MaxZ : v # z /\ z' = v
    /\ raised' = ""
    /\ op' = "step"
    /\ ret' = NoneResult
    /\ UNCHANGED <<inputs, phase, counter, unet_loras, forward, nbuf, inScope,
                   pending, excArg>>

(* --------------------------- specifications ---------------------------- *)
Module(path, size_A, size_B) ==
    <<[path |-> path, role |-> "lora_A", size |-> size_A],
      [path |-> path, role |-> "lora_B", size |-> size_B]>>

\* the layouts the scope protocol is exercised on
ScopeLayouts ==
    { <<>>,
      Module("attn1.to_q", 2, 1),
      Module("attn1.to_q", 2, 1) \o Module("attn2.to_k", 1, 2),
      Module("attn2.to_out", 1, 1) \o Module("attn1.to_q", 2, 2) }

Init ==
    InitInputs(ScopeLayouts, {"full", "selfattn"}, {Paths}, DecWidths,
               Ranks, Alphas, Multipliers)

Next == Construct \/ Enter \/ Exit \/ BodyRaise \/ CallForward \/ Step

Spec == Init /\ [][Next]_vars

(* ======================= properties: layout ============================ *)
Constructed == op = "init" /\ phase = "ready"

\* the declared size of a factor of a module
DeclaredSize(path, role) ==
    LET k == CHOOSE k \in 1..Len(weight_dimensions) :
                 weight_dimensions[k].path = path /\ weight_dimensions[k].role = role
    IN  weight_dimensions[k].size

\* position in the layout of a factor's key
KeyIndex(path, role) ==
    CHOOSE k \in 1..Len(weight_dimensions) :
        weight_dimensions[k].path = path /\ weight_dimensions[k].role = role

\* position in the layout of the first key naming a module
FirstIndex(path) ==
    CHOOSE k \in 1..Len(weight_dimensions) :
        /\ weight_dimensions[k].path = path
        /\ \A j \in 1..(k - 1) : weight_dimensions[j].path # path

RetainedPaths == {unet_loras[i].lora_name.path : i \in 1..Len(unet_loras)}

\* declared sizes of both factors, summed over a set of modules
RECURSIVE SumModules(_)
SumModules(S) ==
    IF S = {} THEN 0
    ELSE LET p == CHOOSE p \in S : TRUE
         IN  DeclaredSize(p, "lora_A") + DeclaredSize(p, "lora_B")
                + SumModules(S \ {p})

\* declared sizes summed over a set of key positions
RECURSIVE SumKeys(_)
SumKeys(S) ==
    IF S = {} THEN 0
    ELSE LET k == CHOOSE k \in S : TRUE
         IN  weight_dimensions[k].size + SumKeys(S \ {k})

\* the ranges in creation order: A of adapter 1, B of adapter 1, A of adapter 2, ...
RangeAt(n) ==
    IF n % 2 = 1 THEN unet_loras[(n + 1) \div 2].slice_A
    ELSE unet_loras[n \div 2].slice_B

NumRanges == 2 * Len(unet_loras)

Disjoint(r, s) == r[2] <= s[1] \/ s[2] <= r[1]

\* C1: after a construction that completes, the ranges of the retained modules
\* are a gapless partition of [0, counter): the first starts at 0, each ends
\* where the next starts, the last ends at counter, they are pairwise disjoint,
\* each is as long as its factor's declared size, range_A of a module ends
\* where its range_B starts, and counter is the sum of the retained sizes.
C1_RangesPartition ==
    Constructed =>
        /\ NumRanges > 0 => RangeAt(1)[1] = 0
        /\ \A n \in 1..(NumRanges - 1) : RangeAt(n)[2] = RangeAt(n + 1)[1]
        /\ IF NumRanges > 0 THEN RangeAt(NumRanges)[2] = counter ELSE counter = 0
        /\ \A n, m \in 1..NumRanges : n # m => Disjoint(RangeAt(n), RangeAt(m))
        /\ \A i \in 1..Len(unet_loras) :
              LET l == unet_loras[i]
              IN  /\ l.slice_A[2] - l.slice_A[1] = DeclaredSize(l.lora_name.path, "lora_A")
                  /\ l.slice_B[2] - l.slice_B[1] = DeclaredSize(l.lora_name.path, "lora_B")
                  /\ l.slice_A[2] = l.slice_B[1]
        /\ counter = SumModules(RetainedPaths)

\* two modules retained, of different sizes: the ranges of the second start
\* after both ranges of the first
C1_Witness ==
    /\ Constructed
    /\ Len(unet_loras) = 2
    /\ unet_loras[1].slice_A = <<0, 2>>
    /\ unet_loras[1].slice_B = <<2, 3>>
    /\ unet_loras[2].slice_A = <<3, 4>>
    /\ unet_loras[2].slice_B = <<4, 6>>
    /\ counter = 6

\* the keys of the retained modules
RetainedKeys ==
    {k \in 1..Len(weight_dimensions) : weight_dimensions[k].path \in RetainedPaths}

StartOf(path, role) ==
    LET l == unet_loras[CHOOSE i \in 1..Len(unet_loras) :
                            unet_loras[i].lora_name.path = path]
    IN  IF role = "lora_A" THEN l.slice_A[1] ELSE l.slice_B[1]

\* the start of every retained factor is the sum of the sizes of the retained
\* factors listed before it in the layout
StartsFollowKeyOrder ==
    \A k \in RetainedKeys :
        StartOf(weight_dimensions[k].path, weight_dimensions[k].role)
            = SumKeys({j \in RetainedKeys : j < k})

\* C9 as stated: ranges are assigned in the order of the layout's keys,
\* whatever that order is.
C9_KeyOrder == Constructed => StartsFollowKeyOrder

\* every module's down-factor key is directly followed by its up-factor key
ListedInPairs ==
    /\ Len(weight_dimensions) % 2 = 0
    /\ \A k \in 1..Len(weight_dimensions) :
          k % 2 = 1 =>
              /\ weight_dimensions[k].role = "lora_A"
              /\ weight_dimensions[k + 1].role = "lora_B"
              /\ weight_dimensions[k + 1].path = weight_dimensions[k].path

\* C9 amended: ranges are assigned module by module, the modules in the order
\* in which the layout first names them, the down factor before the up factor;
\* this is the layout's key order when the layout lists every module as a
\* down key directly followed by its up key.
C9_GroupOrder ==
    Constructed =>
        /\ \A p \in RetainedPaths :
              LET before == {q \in RetainedPaths : FirstIndex(q) < FirstIndex(p)}
              IN  /\ StartOf(p, "lora_A") = SumModules(before)
                  /\ StartOf(p, "lora_B")
                        = StartOf(p, "lora_A") + DeclaredSize(p, "lora_A")
        /\ ListedInPairs => StartsFollowKeyOrder

\* a layout that interleaves the keys of two modules and lists an up factor
\* first, resolved module by module
C9_Witness ==
    /\ Constructed
    /\ Len(unet_loras) = 2
    /\ ~ListedInPairs
    /\ KeyIndex(unet_loras[1].lora_name.path, "lora_B") = 1
    /\ KeyIndex(unet_loras[2].lora_name.path, "lora_A") = 2
    /\ DeclaredSize(unet_loras[1].lora_name.path, "lora_A")
          # DeclaredSize(unet_loras[1].lora_name.path, "lora_B")
    /\ ~StartsFollowKeyOrder

NoForwardReplaced == \A p \in unet : forward[p] = OrigForward(p)

\* C6: with a method name outside the supported set, construction fails with
\* the unsupported-method error and no forward has been replaced.
C6_UnsupportedMethodFails ==
    (op = "init" /\ train_method \notin TRAINING_METHODS) =>
        /\ phase = "failed"
        /\ raised = "NotImplementedError"
        /\ NoForwardReplaced

\* C7: no manager is constructed whose total parameter count differs from
\* the decoder's output width.
C7_MismatchIsFatal == Constructed => counter = decWidth

\* some module of the layout lacks its down factor or its up factor
Malformed ==
    \E k \in 1..Len(weight_dimensions) :
        ~\E j \in 1..Len(weight_dimensions) :
            /\ weight_dimensions[j].path = weight_dimensions[k].path
            /\ weight_dimensions[j].role # weight_dimensions[k].role

Benign == train_method \in TRAINING_METHODS /\ unet = Paths

\* C8 as stated: a layout with an incomplete module still constructs.
C8_MalformedSkipped == (op = "init" /\ Malformed /\ Benign) => phase = "ready"

\* C8 amended: a layout with an incomplete module never constructs:
\* create_modules raises (the TypeError of unpacking the missing partner,
\* unless an earlier entry raised first), no adapter exists and no forward is
\* replaced.
C8_MalformedRaises ==
    (op = "init" /\ Malformed) =>
        /\ phase = "failed"
        /\ raised \in {"TypeError", "NotImplementedError", "AttributeError"}
        /\ Benign => raised = "TypeError"
        /\ unet_loras = <<>>
        /\ NoForwardReplaced

\* a complete module listed before an incomplete one
C8_Witness ==
    /\ op = "init"
    /\ Malformed
    /\ Benign
    /\ train_method = "full"
    /\ Len(weight_dimensions) = 3
    /\ weight_dimensions[1].path = weight_dimensions[2].path
    /\ raised = "TypeError"

(* ==================== properties: adapters and scopes ================== *)
Ready == phase = "ready"

PathOf(lora) == lora.lora_name.path

\* an adapter passes through: its multiplier is 0 or no scope is active
Inactive(lora) == lora.multiplier = 0 \/ ~inScope

\* what only __enter__ and __exit__ may change is blanked out
Fixed(lora) == [lora EXCEPT !.params = NoneParams, !.multiplier = 0]

FixedPart(loras) == [i \in 1..Len(loras) |-> Fixed(loras[i])]

\* C2: whenever an adapter's multiplier is 0 or no scope is active, its
\* forward(x), and the backbone module's replaced forward, return exactly what
\* the captured original forward returns on x, for every x; and a forward call
\* changes nothing of the adapters or the manager.
C2_Passthrough ==
    /\ [](Ready =>
            \A i \in 1..Len(unet_loras) :
                Inactive(unet_loras[i]) =>
                    \A x \in Inputs :
                        /\ Forward(unet_loras[i], x, unet_loras)
                              = OrgResult(PathOf(unet_loras[i]), x)
                        /\ Invoke(forward[PathOf(unet_loras[i])], x, unet_loras)
                              = OrgResult(PathOf(unet_loras[i]), x))
    /\ [][op' = "forward" =>
            UNCHANGED <<unet_loras, forward, z, nbuf, multiplier, rank, alpha,
                        counter, inScope>>]_vars

\* a call inside a scope whose multiplier is 0, on a module with an adapter
\* that holds a decoded buffer, returned the original output
C2_Witness ==
    /\ op = "forward"
    /\ inScope
    /\ multiplier = 0
    /\ \E i \in 1..Len(unet_loras) :
          /\ PathOf(unet_loras[i]) = ret.path
          /\ unet_loras[i].params # NoneParams
          /\ forward[ret.path] = LoraForward(ret.path)
    /\ ret = OrgResult(ret.path, ret.x)

\* C3: after every __exit__, from whatever state and whether or not the body
\* raised, every adapter has multiplier 0 and no params; __exit__ raises
\* nothing of its own, and the body's error, if any, is still raised.
C3_ExitClears ==
    op = "exit" =>
        /\ \A i \in 1..Len(unet_loras) :
              /\ unet_loras[i].multiplier = 0
              /\ unet_loras[i].params = NoneParams
        /\ raised = (IF excArg = "None" THEN "" ELSE excArg)
        /\ ~inScope
        /\ ~pending

\* an exit on a body that raised, with adapters that held a buffer
C3_Witness ==
    /\ op = "exit"
    /\ excArg = "BodyError"
    /\ raised = "BodyError"
    /\ Len(unet_loras) = 2
    /\ nbuf = 2

\* C4: right after every __enter__, every adapter holds the one buffer this
\* enter decoded (the newest, the bfloat16 of the decoding of the latent as it
\* is now) and the manager's multiplier.
C4_EnterRefreshes ==
    op = "enter" =>
        \A i \in 1..Len(unet_loras) :
            /\ unet_loras[i].params.id = nbuf
            /\ Len(unet_loras[i].params.data) = decWidth
            /\ \A k \in 1..decWidth :
                  unet_loras[i].params.data[k] = BFloat16(257 * z + k)
            /\ unet_loras[i].multiplier = multiplier

\* a second enter, after the latent changed, with two adapters
C4_Witness ==
    /\ op = "enter"
    /\ nbuf = 2
    /\ z = 1
    /\ Len(unet_loras) = 2
    /\ unet_loras[1].params = unet_loras[2].params
    /\ unet_loras[1].params.data[3] = 260

\* the buffer with everything outside two ranges zeroed
Masked(P, rA, rB) ==
    [k \in 1..Len(P) |->
        IF (rA[1] < k /\ k <= rA[2]) \/ (rB[1] < k /\ k <= rB[2]) THEN P[k] ELSE 0]

\* original_forward(x) + (x @ P[range_A] as a column @ P[range_B] as a row)
\* * m * alpha / rank, alpha replaced by rank when 0 or unset; an error where
\* the shapes do not fit
Law(path, x, P, rA, rB, m) ==
    LET a  == [k \in 1..(IF Len(P) < rA[2] THEN Len(P) - rA[1] ELSE rA[2] - rA[1])
                  |-> P[rA[1] + k]]
        b  == [k \in 1..(IF Len(P) < rB[2] THEN Len(P) - rB[1] ELSE rB[2] - rB[1])
                  |-> P[rB[1] + k]]
        al == IF alpha = AlphaNone \/ alpha = 0 THEN rank ELSE alpha
    IN  IF Len(a) # Len(x) \/ Len(b) = 0 THEN ErrorResult("RuntimeError")
        ELSE [kind |-> "value", path |-> path, x |-> x,
              added |-> <<[j \in 1..Len(b) |-> Frac(Dot(x, a) * b[j] * m * al, rank)]>>]

\* C5: inside a scope with a nonzero manager multiplier m, every adapter's
\* forward(x), and the backbone module's replaced forward, equal the law
\* computed from the buffer P the adapter holds, its two ranges, m and
\* alpha/rank; the result depends on P only through the adapter's two ranges.
C5_ActivationLaw ==
    (Ready /\ inScope /\ multiplier # 0) =>
        \A i \in 1..Len(unet_loras) :
            LET l == unet_loras[i]
            IN  \A x \in Inputs :
                    /\ Forward(l, x, unet_loras)
                          = Law(PathOf(l), x, l.params.data, l.slice_A, l.slice_B,
                                multiplier)
                    /\ Invoke(forward[PathOf(l)], x, unet_loras)
                          = Forward(l, x, unet_loras)
                    /\ Forward([l EXCEPT !.params.data =
                                    Masked(@, l.slice_A, l.slice_B)], x, unet_loras)
                          = Forward(l, x, unet_loras)

\* an active call on the second adapter, scaled by alpha/rank = 1/4, whose
\* update is not zero
C5_Witness ==
    /\ op = "forward"
    /\ inScope
    /\ Len(unet_loras) = 2
    /\ ret.kind = "value"
    /\ ret.path = PathOf(unet_loras[2])
    /\ alpha = 1
    /\ rank = 4
    /\ multiplier = 2
    /\ Len(ret.added) = 1
    /\ ret.added[1][1][1] # 0

\* C10: once constructed, every adapter is installed (it holds the module's
\* original forward, has dropped the module, and the module's forward is the
\* adapter's) and stays so; no step after construction changes an adapter's
\* captured forward, ranges, rank or scale, the list of adapters or the
\* backbone's forwards.
C10_InstallIsOneWay ==
    /\ [](Ready =>
            /\ \A i \in 1..Len(unet_loras) :
                  /\ unet_loras[i].org_forward = OrigForward(PathOf(unet_loras[i]))
                  /\ unet_loras[i].org_module = "deleted"
                  /\ forward[PathOf(unet_loras[i])] = LoraForward(PathOf(unet_loras[i]))
            /\ \A p \in unet :
                  (\A i \in 1..Len(unet_loras) : PathOf(unet_loras[i]) # p)
                      => forward[p] = OrigForward(p))
    /\ [][Ready =>
            /\ FixedPart(unet_loras') = FixedPart(unet_loras)
            /\ forward' = forward
            /\ phase' = phase]_vars

\* two installed adapters, after a scope was entered and left twice
C10_Witness ==
    /\ op = "exit"
    /\ nbuf = 2
    /\ Len(unet_loras) = 2
    /\ \A i \in 1..2 : forward[PathOf(unet_loras[i])] = LoraForward(PathOf(unet_loras[i]))

====
